---- MODULE Spec2Model ----
(***************************************************************************)
(* Model of src/nyc.py: the BaseDB persistence gateway and the NYCDB load  *)
(* pipeline (load_new_data, revert, load_nyc_file and the per-row          *)
(* resolve-or-create routines) on top of one SQLite connection.            *)
(*                                                                         *)
(* The store is modelled twice: `db` is what is committed in the database  *)
(* file, `tx` is what the gateway's connection sees (committed rows plus   *)
(* the rows of its open transaction).  sqlite3 opens a transaction before  *)
(* the first INSERT, commit() makes tx the committed store, rollback() and *)
(* close() throw the open transaction away.                                *)
(***************************************************************************)
EXTENDS Integers, Sequences, FiniteSets, TLC

\* ------------------------------------------------------------------------
\* Bounds and input domains
\* ------------------------------------------------------------------------

\* Data rows over all the csv files of one behaviour.
MaxRows == 2

\* Data rows of the one file of the behaviours that exercise the time synthesis.
MaxLen == 9

\* Direct run_action calls of one behaviour.
MaxWrites == 1

\* PATH_DB split at os.sep, and the path of its first k segments.
path_parts == <<"data", "nyc_health.sqlite">>

Part(k) == SubSeq(path_parts, 1, k)

\* The descriptions the direct gateway calls write and look up.
Cuisines == {"Thai", "Pizza"}

\* The csv files that exist under data/ (names matching FILE_PATTERN).
FileNames == {"nyc_a.csv", "nyc_b.csv"}

\* pandas reads an empty csv field as NaN, which sqlite3 binds as NULL.
NaN == "NaN"

\* Strings that are inspected character by character are tuples of characters.
Digits == <<"0", "1", "2", "3", "4", "5", "6", "7", "8", "9">>

DateGood == <<"0", "1", "/", "0", "2", "/", "2", "0", "2", "0">>

DateShort == <<"1", "/", "2", "/", "2", "0", "2", "0">>

DateAlpha == <<"a", "b", "/", "c", "d", "/", "e", "f", "g", "h">>

\* The csv columns load_nyc_file reads (insp_time is added by the loader).
AllColumns == {"CAMIS", "DBA", "BORO", "BUILDING", "STREET", "ZIPCODE", "PHONE",
               "CUISINE DESCRIPTION", "INSPECTION DATE", "ACTION",
               "VIOLATION CODE", "VIOLATION DESCRIPTION"}

Headers == {AllColumns, AllColumns \ {"CAMIS"}}

BaseRow == [CAMIS |-> 41, DBA |-> "Joe", BORO |-> "Bronx", BUILDING |-> "10",
            STREET |-> "Main", ZIPCODE |-> 10462, PHONE |-> 555,
            cuisine_desc |-> "Thai", insp_date |-> DateGood,
            action_desc |-> "Cited", viol_id |-> "04L", viol_desc |-> "Mice"]

\* The data rows the files are drawn from: the base row; the same restaurant
\* and violation code with every other attribute changed; the same
\* restaurant with another violation code; another restaurant whose date
\* has letters for digits; rows whose insert fails (a date of the wrong
\* length, a missing violation description).
Rows == { BaseRow,
          [BaseRow EXCEPT !.DBA = "Moe", !.STREET = "Elm", !.cuisine_desc = "Pizza",
                          !.action_desc = "Closed", !.viol_desc = "Rats"],
          [BaseRow EXCEPT !.viol_id = "10F"],
          [BaseRow EXCEPT !.CAMIS = 52, !.cuisine_desc = "Pizza", !.insp_date = DateAlpha],
          [BaseRow EXCEPT !.CAMIS = 52, !.cuisine_desc = "Pizza", !.action_desc = "Closed",
                          !.viol_desc = "Rats", !.insp_date = DateShort],
          [BaseRow EXCEPT !.cuisine_desc = "Pizza", !.viol_id = "10F", !.viol_desc = NaN] }

RECURSIVE SeqsUpTo(_, _)
\* All sequences over S of length at most n.
SeqsUpTo(S, n) ==
    IF n = 0 THEN {<<>>}
    ELSE LET shorter == SeqsUpTo(S, n - 1)
         IN  shorter \cup {Append(s, x) : s \in {t \in shorter : Len(t) = n - 1}, x \in S}

\* A file whose bytes are not UTF-8: pd.read_csv gets neither header nor
\* rows out of it.
NotUtf8 == [header |-> {}, rows |-> <<>>, utf8 |-> FALSE]

CsvFiles == [header : Headers, rows : SeqsUpTo(Rows, MaxRows), utf8 : {TRUE}] \cup {NotUtf8}

\* The files of the behaviours that start before construction: a header
\* alone, or the base row under it.
BootFiles == [header : {AllColumns}, rows : {<<>>, <<BaseRow>>}, utf8 : {TRUE}]

RECURSIVE TotalRows(_, _)
TotalRows(fd, names) ==
    IF names = {} THEN 0
    ELSE LET f == CHOOSE g \in names : TRUE
         IN  Len(fd[f].rows) + TotalRows(fd, names \ {f})

\* ------------------------------------------------------------------------
\* Time synthesis (load_nyc_file, np.random.seed(7) ... zfill)
\* ------------------------------------------------------------------------

\* np.random.seed(7) followed by randint(9, 18, n), randint(0, 61, n),
\* randint(0, 61, n): the values the seeded generator returns for a file of
\* n data rows (the three arrays share one stream, so m and s depend on n).
randint_h == [n \in 1..10 |-> SubSeq(<<13, 15, 12, 12, 16, 16, 16, 17, 17, 16>>, 1, n)]

randint_m == [n \in 1..10 |->
                CASE n = 1 -> <<25>>
                  [] n = 2 -> <<3, 19>>
                  [] n = 3 -> <<19, 23, 39>>
                  [] n = 4 -> <<23, 39, 28, 57>>
                  [] n = 5 -> <<39, 28, 57, 14, 23>>
                  [] n = 6 -> <<28, 57, 14, 23, 8, 25>>
                  [] n = 7 -> <<8, 25, 46, 42, 26, 8, 39>>
                  [] n = 8 -> <<25, 46, 42, 26, 8, 39, 38, 4>>
                  [] n = 9 -> <<39, 38, 4, 48, 7, 44, 0, 11, 55>>
                  [] n = 10 -> <<38, 4, 48, 7, 44, 0, 11, 55, 58, 6>>]

randint_s == [n \in 1..10 |->
                CASE n = 1 -> <<54>>
                  [] n = 2 -> <<23, 39>>
                  [] n = 3 -> <<28, 57, 14>>
                  [] n = 4 -> <<14, 23, 8, 25>>
                  [] n = 5 -> <<8, 25, 46, 42, 26>>
                  [] n = 6 -> <<46, 42, 26, 8, 39, 38>>
                  [] n = 7 -> <<38, 4, 48, 7, 44, 0, 11>>
                  [] n = 8 -> <<48, 7, 44, 0, 11, 55, 58, 6>>
                  [] n = 9 -> <<58, 6, 19, 60, 44, 5, 56, 24, 55>>
                  [] n = 10 -> <<19, 60, 44, 5, 56, 24, 55, 53, 48, 59>>]

\* str(k) for 0 <= k <= 99.
Str(k) == IF k < 10 THEN <<Digits[k + 1]>>
          ELSE <<Digits[(k \div 10) + 1], Digits[(k % 10) + 1]>>

\* Mutant of zfill2: no padding.
zfill2_none(s) == s

\* s.zfill(2)
zfill2(s) == IF Len(s) >= 2 THEN s ELSE <<"0">> \o s

\* The insp_time of data row k (1-based) of a file of n data rows.
insp_time(k, n) ==
    zfill2(Str(randint_h[n][k])) \o <<":">> \o zfill2(Str(randint_m[n][k]))
        \o <<":">> \o zfill2(Str(randint_s[n][k]))

\* ------------------------------------------------------------------------
\* The schema (_create_tables) and the statements run against it
\* ------------------------------------------------------------------------

\* The five tables after _create_tables, with sqlite_sequence for the two
\* AUTOINCREMENT keys.
EmptyStore == [tCuisine |-> {}, tViol |-> {}, tAction |-> {}, tRest |-> {}, tInsp |-> {},
               seqCuisine |-> 0, seqAction |-> 0]

\* Mutant of LikeDate: no CHECK on insp_date.
LikeDate_any(d) == TRUE

\* insp_date LIKE '__/__/____'
LikeDate(d) == Len(d) = 10 /\ d[3] = "/" /\ d[6] = "/"

\* insp_time LIKE '__:__:__'
LikeTime(t) == Len(t) = 8 /\ t[3] = ":" /\ t[6] = ":"

Failed(S) == [ok |-> FALSE, store |-> S, lastrowid |-> 0]

Done(S, rowid) == [ok |-> TRUE, store |-> S, lastrowid |-> rowid]

\* Mutant of SelectCuisine: the lookup never matches.
SelectCuisine_none(S, desc) == {}

\* get_cuisine: sql_select.  A NULL parameter matches no row.
SelectCuisine(S, desc) == {r.cuisine_id : r \in {q \in S.tCuisine : q.cuisine_desc = desc /\ desc # NaN}}

\* get_cuisine: sql_insert under tCuisine's constraints.
InsertCuisine(S, desc) ==
    IF desc = NaN THEN Failed(S)
    ELSE Done([S EXCEPT !.tCuisine = @ \cup {[cuisine_id |-> S.seqCuisine + 1, cuisine_desc |-> desc]},
                        !.seqCuisine = @ + 1],
              S.seqCuisine + 1)

\* get_action: sql_select.
SelectAction(S, desc) == {r.action_id : r \in {q \in S.tAction : q.action_desc = desc /\ desc # NaN}}

\* get_action: sql_insert under tAction's constraints.
InsertAction(S, desc) ==
    IF desc = NaN THEN Failed(S)
    ELSE Done([S EXCEPT !.tAction = @ \cup {[action_id |-> S.seqAction + 1, action_desc |-> desc]},
                        !.seqAction = @ + 1],
              S.seqAction + 1)

\* load_viol: sql_select.
SelectViol(S, viol_id) == {q \in S.tViol : q.viol_id = viol_id /\ viol_id # NaN}

\* load_viol: sql_insert under tViol's constraints.
InsertViol(S, viol_id, viol_desc) ==
    IF viol_id = NaN \/ viol_desc = NaN \/ (\E q \in S.tViol : q.viol_id = viol_id)
    THEN Failed(S)
    ELSE Done([S EXCEPT !.tViol = @ \cup {[viol_id |-> viol_id, viol_desc |-> viol_desc]}], 0)

\* The tRest row built from load_rest's parameters.
RestRow(rw, cid) ==
    [camis |-> rw.CAMIS, dba |-> rw.DBA, boro |-> rw.BORO, building |-> rw.BUILDING,
     street |-> rw.STREET, zip |-> rw.ZIPCODE, phone |-> rw.PHONE, cuisine_id |-> cid]

\* load_rest: sql_select.
SelectRest(S, camis) == {q \in S.tRest : q.camis = camis}

\* Mutant of InsertRest: no REFERENCES clause, and :cuisine_id bound off by one.
InsertRest_unchecked(S, rw, cid) ==
    IF \E q \in S.tRest : q.camis = rw.CAMIS THEN Failed(S)
    ELSE Done([S EXCEPT !.tRest = @ \cup {RestRow(rw, cid + 1)}], rw.CAMIS)

\* load_rest: sql_insert under tRest's constraints with foreign_keys=ON.
InsertRest(S, rw, cid) ==
    IF \/ rw.DBA = NaN \/ rw.BORO = NaN \/ rw.BUILDING = NaN \/ rw.STREET = NaN
       \/ \E q \in S.tRest : q.camis = rw.CAMIS
       \/ ~ \E c \in S.tCuisine : c.cuisine_id = cid
    THEN Failed(S)
    ELSE Done([S EXCEPT !.tRest = @ \cup {RestRow(rw, cid)}], rw.CAMIS)

InspKey(r) == <<r.camis, r.insp_date, r.insp_time, r.viol_id>>

\* Mutant of SelectInsp: the lookup matches on the restaurant alone.
SelectInsp_byRest(S, camis, insp_date, time, viol_id) == {q \in S.tInsp : q.camis = camis}

\* load_insp: sql_select.
SelectInsp(S, camis, insp_date, time, viol_id) ==
    {q \in S.tInsp : InspKey(q) = <<camis, insp_date, time, viol_id>>}

\* load_insp: sql_insert under tInsp's constraints with foreign_keys=ON.
InsertInsp(S, camis, insp_date, time, viol_id, action_id) ==
    IF \/ viol_id = NaN
       \/ ~ LikeDate(insp_date)
       \/ ~ LikeTime(time)
       \/ \E q \in S.tInsp : InspKey(q) = <<camis, insp_date, time, viol_id>>
       \/ ~ \E r \in S.tRest : r.camis = camis
       \/ ~ \E v \in S.tViol : v.viol_id = viol_id
       \/ ~ \E a \in S.tAction : a.action_id = action_id
    THEN Failed(S)
    ELSE Done([S EXCEPT !.tInsp = @ \cup {[camis |-> camis, insp_date |-> insp_date,
                                            insp_time |-> time, viol_id |-> viol_id,
                                            action_id |-> action_id]}], 0)

\* A resolve-or-create routine on the view S: `wrote` tells whether the
\* lookup came back empty and the insert was issued through run_action,
\* `res` is the insert's result (or the view untouched and the id found).
Found(S, id) == [wrote |-> FALSE, res |-> Done(S, id)]

Wrote(res) == [wrote |-> TRUE, res |-> res]

\* Mutant of FirstId: len(query) taken for the id.
FirstId_count(ids) == Cardinality(ids)

\* query.values[0][0]: the id of the first row returned.
FirstId(ids) == CHOOSE k \in ids : \A j \in ids : k <= j

\* get_cuisine on the view S.
GetCuisine(S, desc) ==
    IF SelectCuisine(S, desc) = {} THEN Wrote(InsertCuisine(S, desc))
    ELSE Found(S, FirstId(SelectCuisine(S, desc)))

\* get_action on the view S.
GetAction(S, desc) ==
    IF SelectAction(S, desc) = {} THEN Wrote(InsertAction(S, desc))
    ELSE Found(S, FirstId(SelectAction(S, desc)))

\* Mutant of LoadViol: INSERT OR REPLACE without a lookup.
LoadViol_upsert(S, viol_id, viol_desc) ==
    Wrote(Done([S EXCEPT !.tViol = {q \in @ : q.viol_id # viol_id}
                                      \cup {[viol_id |-> viol_id, viol_desc |-> viol_desc]}], 0))

\* load_viol on the view S.
LoadViol(S, viol_id, viol_desc) ==
    IF SelectViol(S, viol_id) = {} THEN Wrote(InsertViol(S, viol_id, viol_desc))
    ELSE Found(S, 0)

\* Mutant of LoadRest: INSERT OR REPLACE without a lookup.
LoadRest_upsert(S, rw, cid) ==
    Wrote(Done([S EXCEPT !.tRest = {q \in @ : q.camis # rw.CAMIS} \cup {RestRow(rw, cid)}], rw.CAMIS))

\* load_rest on the view S.
LoadRest(S, rw, cid) ==
    IF SelectRest(S, rw.CAMIS) = {} THEN Wrote(InsertRest(S, rw, cid))
    ELSE Found(S, 0)

\* load_insp on the view S.
LoadInsp(S, camis, insp_date, time, viol_id, aid) ==
    IF SelectInsp(S, camis, insp_date, time, viol_id) = {}
    THEN Wrote(InsertInsp(S, camis, insp_date, time, viol_id, aid))
    ELSE Found(S, 0)

\* ------------------------------------------------------------------------
\* State
\* ------------------------------------------------------------------------

VARIABLES
    files,          \* file name -> [header, rows, utf8]: the csv files (never rewritten)
    fs,             \* file name -> "intake" (data/to_load/), "archive" (data/loaded/) or
                    \* "absent" (not on disk: there is no data/ directory to hold it)
    op,             \* the NYCDB method the caller is in: "idle", "load_new_data", "load_nyc_file"
    outcome,        \* load_new_data: file name -> "none" (not in `files`), "pending", "ok", "error";
                    \* a scan that raised leaves the files it did not attempt "pending"
    cur,            \* load_nyc_file: file_path ("" when no load is running)
    i,              \* load_nyc_file: index of the row being processed
    stmt,           \* load_nyc_file: the call the row loop is about to make
    cuisine_id,     \* load_nyc_file: local cuisine_id
    action_id,      \* load_nyc_file: local action_id
    conn,           \* self._conn: "unset" (never connected), "open", "closed"
    db,             \* the committed store
    tx,             \* the store as the connection sees it (db plus the open transaction)
    result,         \* how the last load_nyc_file call ended: "none", "returned", "raised"
    start,          \* history: [db, tx] when the running load_nyc_file began
    last,           \* history: [file, store, again] of the last load that returned (again: it was
                    \* a second load of that file in a row), until another file is loaded
    resolved,       \* history: the <<table, description, id, kept>> resolved whose row is
                    \* still there; kept: the row has outlived a rollback that discarded
                    \* the row of another pair
    everResolved,   \* history: <<table, description, id>> resolved since construction
    firstViol,      \* history: <<code, description>> of the first row met with each violation code
    disk,           \* the paths Part(k) that exist on the filesystem
    schema,         \* whether the store file holds the five tables
    _existed,       \* self._existed
    instance,       \* the object the caller holds: "none", "BaseDB", "NYCDB"
    missing,        \* the path the last constructor's FileNotFoundError named (<<>>: it returned)
    reverted,       \* history: the files the last revert moved, until the next load
    written,        \* history: <<keep_open, row>> of the direct run_action calls that returned
                    \* on the object held
    nwrites,        \* the number of direct run_action calls that returned, on any object
    locked,         \* a connection of a dropped object is still alive with its uncommitted
                    \* rows: it holds the write lock of the store until it is collected
    query           \* the last direct run_query call: [desc, rows] ([desc |-> "", rows |-> {}]: none yet)

vars == <<files, fs, op, outcome, cur, i, stmt, cuisine_id, action_id, conn, db, tx,
          result, start, last, resolved, everResolved, firstViol,
          disk, schema, _existed, instance, missing, reverted, written, nwrites, locked, query>>

\* What the load pipeline never touches: the store path, the object held,
\* the record of the direct gateway calls and the connections of dropped
\* objects.
boot == <<disk, schema, _existed, instance, missing, written, nwrites, locked, query>>

NoQuery == [desc |-> "", rows |-> {}]

\* self._connected
connected == conn = "open"

NoStart == [db |-> EmptyStore, tx |-> EmptyStore, on |-> FALSE]

NoLast == [file |-> "", store |-> EmptyStore, again |-> FALSE]

\* What is the same in every initial state.
Idle ==
    /\ op = "idle"
    /\ outcome = [f \in FileNames |-> "none"]
    /\ cur = "" /\ i = 0 /\ stmt = "-"
    /\ cuisine_id = 0 /\ action_id = 0
    /\ db = EmptyStore /\ tx = EmptyStore
    /\ result = "none"
    /\ start = NoStart /\ last = NoLast
    /\ resolved = {} /\ everResolved = {} /\ firstViol = {}
    /\ missing = <<>> /\ reverted = {} /\ written = {} /\ query = NoQuery
    /\ nwrites = 0 /\ locked = FALSE

\* The state after NYCDB() on a store whose tables exist and are empty: the
\* constructor connected (and closed) only if it had to create the store.
Constructed ==
    /\ fs = [f \in FileNames |-> "intake"]
    /\ conn \in {"unset", "closed"}
    /\ disk = {Part(k) : k \in 1..Len(path_parts)}
    /\ schema = TRUE
    /\ _existed = (conn = "unset")
    /\ instance = "NYCDB"

Init ==
    /\ files \in {fd \in [FileNames -> CsvFiles] : TotalRows(fd, FileNames) <= MaxRows}
    /\ Idle /\ Constructed

\* Before any construction: nothing of PATH_DB exists, or only the
\* directory.  The intake directory lies inside that directory, so the csv
\* files are on disk only when it exists.
InitBoot ==
    /\ files \in [FileNames -> BootFiles]
    /\ Idle
    /\ conn = "unset"
    /\ disk \in {{Part(k) : k \in 1..n} : n \in 0..(Len(path_parts) - 1)}
    /\ fs = [f \in FileNames |-> IF Part(1) \in disk THEN "intake" ELSE "absent"]
    /\ schema = FALSE
    /\ _existed = FALSE
    /\ instance = "none"

\* After NYCDB(): one well-formed file of up to MaxLen rows (the base row
\* repeated), the other file without data rows.
InitTimes ==
    /\ \E n \in 1..MaxLen :
          files = [f \in FileNames |->
                      [header |-> AllColumns,
                       rows |-> IF f = "nyc_a.csv" THEN [k \in 1..n |-> BaseRow] ELSE <<>>,
                       utf8 |-> TRUE]]
    /\ Idle /\ Constructed

\* ------------------------------------------------------------------------
\* The persistence gateway (BaseDB)
\* ------------------------------------------------------------------------

\* BaseDB._connect: the connection state afterwards.
_connect(c) == "open"

\* BaseDB._close: the connection state afterwards.
_close(c) == "closed"

\* BaseDB.run_query: the connection and its view after the read; the read
\* raises when the store has no tables, and the finally clause closes
\* unless keep_open.
run_query(keep_open) ==
    [raised |-> ~ schema,
     conn |-> IF keep_open THEN _connect(conn) ELSE _close(_connect(conn)),
     tx   |-> IF keep_open THEN tx ELSE db]

\* Mutant of run_action: the except clause raises without rollback or close.
run_action_bare(res, keep_open) ==
    IF ~ res.ok
    THEN [raised |-> TRUE, conn |-> _connect(conn), tx |-> tx, lastrowid |-> 0]
    ELSE [raised |-> FALSE, conn |-> _connect(conn), tx |-> res.store, lastrowid |-> res.lastrowid]

\* BaseDB.run_action: `res` is what executing the statement on the
\* connection's view gives; while another connection holds the write lock
\* the statement fails (database is locked).  A failure rolls back, closes
\* and raises; a success leaves the row in the open transaction (and
\* closing without keep_open discards that transaction).
run_action(res, keep_open) ==
    IF ~ res.ok \/ locked
    THEN [raised |-> TRUE, conn |-> _close(conn), tx |-> db, lastrowid |-> 0]
    ELSE [raised |-> FALSE,
          conn |-> IF keep_open THEN _connect(conn) ELSE _close(conn),
          tx |-> IF keep_open THEN res.store ELSE db,
          lastrowid |-> res.lastrowid]

\* ------------------------------------------------------------------------
\* load_nyc_file: leaving the call
\* ------------------------------------------------------------------------

\* The data rows of the file being loaded, and the row being processed.
df == files[cur].rows

row == df[i]

HasColumns(cols) == cols \subseteq files[cur].header

\* load_new_data's except clause evaluates type(e)('Problem loading file:
\* ...'): the class of the exception called with one string.  That is a new
\* exception, dropped, for every class but UnicodeDecodeError, whose
\* constructor takes five arguments and raises TypeError.
Constructible(e) == e # "UnicodeDecodeError"

\* The pairs of R whose row is in the store S.
StillStored(R, S) ==
    {p \in R : \/ p[1] = "tCuisine" /\ [cuisine_id |-> p[3], cuisine_desc |-> p[2]] \in S.tCuisine
               \/ p[1] = "tAction" /\ [action_id |-> p[3], action_desc |-> p[2]] \in S.tAction}

\* The uncommitted rows are discarded and S is what is left: the resolved
\* pairs that outlive it.
Kept(R, S) ==
    {<<p[1], p[2], p[3], p[4] \/ StillStored(R, S) # R>> : p \in StillStored(R, S)}

\* get_cuisine or get_action returned id for description d of table t.
Resolve(R, t, d, id) ==
    IF \E p \in R : <<p[1], p[2], p[3]>> = <<t, d, id>> THEN R ELSE R \cup {<<t, d, id, FALSE>>}

\* load_nyc_file(f) raises e; c and t are the connection and its view left
\* behind.  Under load_new_data the except clause swallows the error and
\* the loop goes on with the file left where it is, unless the clause
\* itself raises: then load_new_data raises with the other files not
\* attempted.
Raises(f, c, t, e) ==
    /\ conn' = c /\ tx' = t /\ db' = db
    /\ result' = "raised"
    /\ IF op = "load_new_data" /\ Constructible(e)
       THEN op' = op /\ outcome' = [outcome EXCEPT ![f] = "error"]
       ELSE op' = "idle" /\ outcome' = [g \in FileNames |-> "none"]
    /\ cur' = "" /\ i' = 0 /\ stmt' = "-" /\ cuisine_id' = 0 /\ action_id' = 0
    /\ start' = NoStart /\ last' = NoLast
    /\ UNCHANGED <<files, fs, boot, reverted>>

\* row[...] on a column the csv does not have: KeyError, nothing is undone.
KeyError == Raises(cur, conn, tx, "KeyError") /\ UNCHANGED <<resolved, everResolved, firstViol>>

\* run_action raised: the transaction was rolled back and the connection
\* closed.  The rows that were committed are still there.
WriteError(a) ==
    /\ Raises(cur, a.conn, a.tx, IF locked THEN "sqlite3.OperationalError"
                                  ELSE "sqlite3.IntegrityError")
    /\ resolved' = Kept(resolved, db)
    /\ UNCHANGED <<everResolved, firstViol>>

\* run_query raised: with keep_open the connection stays open as it is.
ReadError(q) ==
    Raises(cur, q.conn, q.tx, "DatabaseError") /\ UNCHANGED <<resolved, everResolved, firstViol>>

\* Mutant of Goto: every call of the row loop commits.
Goto_autocommit(next, c, t) ==
    /\ stmt' = next /\ conn' = c /\ tx' = t /\ db' = t
    /\ UNCHANGED <<files, fs, op, outcome, cur, result, start, last, boot, reverted>>

\* The row loop goes on to its next call.
Goto(next, c, t) ==
    /\ stmt' = next /\ conn' = c /\ tx' = t
    /\ UNCHANGED <<files, fs, op, outcome, cur, db, result, start, last, boot, reverted>>

\* ------------------------------------------------------------------------
\* NYCDB: the operations
\* ------------------------------------------------------------------------

\* load_nyc_file(f) is entered: read_csv, the rename and the time column.
\* With no data row the loop body never runs.
Enter(f) ==
    /\ cur' = f
    /\ i' = IF Len(files[f].rows) = 0 THEN 0 ELSE 1
    /\ stmt' = IF Len(files[f].rows) = 0 THEN "commit" ELSE "get_cuisine"
    /\ start' = [db |-> db, tx |-> tx, on |-> TRUE]
    /\ last' = IF last.file = f THEN last ELSE NoLast
    /\ result' = "none"
    /\ reverted' = {}
    /\ UNCHANGED <<files, fs, cuisine_id, action_id, conn, db, tx, resolved, everResolved, firstViol, boot>>

\* load_new_data: glob the intake directory.
load_new_data ==
    /\ op = "idle" /\ instance = "NYCDB"
    /\ op' = "load_new_data"
    /\ outcome' = [f \in FileNames |-> IF fs[f] = "intake" THEN "pending" ELSE "none"]
    /\ UNCHANGED <<files, fs, cur, i, stmt, cuisine_id, action_id, conn, db, tx,
                   result, start, last, resolved, everResolved, firstViol, boot, reverted>>

\* pd.read_csv(file_path) raises before anything else is done: on a path
\* where no file is, or on bytes that are not UTF-8.
ReadCsvError(f) ==
    /\ Raises(f, conn, tx, IF fs[f] = "absent" THEN "FileNotFoundError" ELSE "UnicodeDecodeError")
    /\ UNCHANGED <<resolved, everResolved, firstViol>>

Readable(f) == fs[f] # "absent" /\ files[f].utf8

\* load_new_data: the next file of the loop (glob promises no order).
load_new_data_file ==
    /\ op = "load_new_data" /\ cur = ""
    /\ \E f \in FileNames :
        /\ outcome[f] = "pending"
        /\ IF Readable(f) THEN Enter(f) /\ UNCHANGED <<op, outcome>>
           ELSE ReadCsvError(f)

\* load_new_data: the loop is over.
load_new_data_return ==
    /\ op = "load_new_data" /\ cur = ""
    /\ \A f \in FileNames : outcome[f] # "pending"
    /\ op' = "idle"
    /\ outcome' = [f \in FileNames |-> "none"]
    /\ UNCHANGED <<files, fs, cur, i, stmt, cuisine_id, action_id, conn, db, tx,
                   result, start, last, resolved, everResolved, firstViol, boot, reverted>>

\* Mutant of revert: the rows loaded from the files are retracted as well.
revert_retract ==
    /\ op = "idle" /\ instance = "NYCDB"
    /\ fs' = [f \in FileNames |-> IF fs[f] = "archive" THEN "intake" ELSE fs[f]]
    /\ reverted' = {f \in FileNames : fs[f] = "archive"}
    /\ db' = EmptyStore /\ tx' = EmptyStore
    /\ UNCHANGED <<files, op, outcome, cur, i, stmt, cuisine_id, action_id, conn,
                   result, start, last, resolved, everResolved, firstViol, boot>>

\* revert: every archived file goes back to the intake directory.
revert ==
    /\ op = "idle" /\ instance = "NYCDB"
    /\ fs' = [f \in FileNames |-> IF fs[f] = "archive" THEN "intake" ELSE fs[f]]
    /\ reverted' = {f \in FileNames : fs[f] = "archive"}
    /\ UNCHANGED <<files, op, outcome, cur, i, stmt, cuisine_id, action_id, conn, db, tx,
                   result, start, last, resolved, everResolved, firstViol, boot>>

\* load_nyc_file called by the user on a file in either directory.
load_nyc_file ==
    /\ op = "idle" /\ instance = "NYCDB"
    /\ \E f \in FileNames :
          IF Readable(f) THEN op' = "load_nyc_file" /\ Enter(f) /\ UNCHANGED outcome
          ELSE ReadCsvError(f)

\* One call of the row loop: the lookup through run_query, then the insert
\* through run_action if the lookup came back empty.  g is the routine's
\* result on the connection's view, `locals` what the loop keeps of it.
Call(g, next, locals) ==
    LET q == run_query(TRUE)
        a == run_action(g.res, TRUE)
    IN  IF q.raised THEN ReadError(q)
        ELSE IF g.wrote /\ a.raised THEN WriteError(a)
        ELSE /\ Goto(next, IF g.wrote THEN a.conn ELSE q.conn, IF g.wrote THEN a.tx ELSE q.tx)
             /\ locals
             /\ firstViol' = IF stmt = "load_viol" /\ ~ \E p \in firstViol : p[1] = row.viol_id
                             THEN firstViol \cup {<<row.viol_id, row.viol_desc>>}
                             ELSE firstViol

\* get_cuisine(row['cuisine_desc'])
get_cuisine ==
    /\ cur # "" /\ stmt = "get_cuisine"
    /\ IF ~ HasColumns({"CUISINE DESCRIPTION"}) THEN KeyError
       ELSE LET g == GetCuisine(run_query(TRUE).tx, row.cuisine_desc)
                id == <<"tCuisine", row.cuisine_desc, g.res.lastrowid>>
            IN  Call(g, "get_action",
                     /\ cuisine_id' = g.res.lastrowid
                     /\ resolved' = Resolve(resolved, id[1], id[2], id[3])
                     /\ everResolved' = everResolved \cup {id}
                     /\ UNCHANGED <<i, action_id>>)

\* get_action(row['action_desc'])
get_action ==
    /\ cur # "" /\ stmt = "get_action"
    /\ IF ~ HasColumns({"ACTION"}) THEN KeyError
       ELSE LET g == GetAction(run_query(TRUE).tx, row.action_desc)
                id == <<"tAction", row.action_desc, g.res.lastrowid>>
            IN  Call(g, "load_viol",
                     /\ action_id' = g.res.lastrowid
                     /\ resolved' = Resolve(resolved, id[1], id[2], id[3])
                     /\ everResolved' = everResolved \cup {id}
                     /\ UNCHANGED <<i, cuisine_id>>)

\* load_viol(row['viol_id'], row['viol_desc'])
load_viol ==
    /\ cur # "" /\ stmt = "load_viol"
    /\ IF ~ HasColumns({"VIOLATION CODE", "VIOLATION DESCRIPTION"}) THEN KeyError
       ELSE Call(LoadViol(run_query(TRUE).tx, row.viol_id, row.viol_desc), "load_rest",
                 UNCHANGED <<i, cuisine_id, action_id, resolved, everResolved>>)

\* load_rest(row['CAMIS'], ..., cuisine_id)
load_rest ==
    /\ cur # "" /\ stmt = "load_rest"
    /\ IF ~ HasColumns({"CAMIS", "DBA", "BORO", "BUILDING", "STREET", "ZIPCODE", "PHONE"})
       THEN KeyError
       ELSE Call(LoadRest(run_query(TRUE).tx, row, cuisine_id), "load_insp",
                 UNCHANGED <<i, cuisine_id, action_id, resolved, everResolved>>)

\* load_insp(row['CAMIS'], row['insp_date'], row['insp_time'], row['viol_id'], action_id),
\* then the next row, or the commit after the last one.
load_insp ==
    /\ cur # "" /\ stmt = "load_insp"
    /\ IF ~ HasColumns({"CAMIS", "INSPECTION DATE", "VIOLATION CODE"}) THEN KeyError
       ELSE Call(LoadInsp(run_query(TRUE).tx, row.CAMIS, row.insp_date,
                          insp_time(i, Len(df)), row.viol_id, action_id),
                 IF i < Len(df) THEN "get_cuisine" ELSE "commit",
                 /\ i' = IF i < Len(df) THEN i + 1 ELSE i
                 /\ cuisine_id' = 0 /\ action_id' = 0
                 /\ UNCHANGED <<resolved, everResolved>>)

\* self._conn.commit(); self._close(); return.  Without a connection
\* (never opened, or closed) the commit raises.  Under load_new_data the
\* file is then renamed into the archive directory.
commit ==
    /\ cur # "" /\ stmt = "commit"
    /\ IF ~ connected
       THEN /\ Raises(cur, conn, tx, IF conn = "unset" THEN "AttributeError"
                                     ELSE "sqlite3.ProgrammingError")
            /\ UNCHANGED <<resolved, everResolved, firstViol>>
       ELSE /\ db' = tx /\ tx' = tx
            /\ conn' = _close(conn)
            /\ result' = "returned"
            /\ last' = [file |-> cur, store |-> tx, again |-> last.file = cur]
            /\ start' = NoStart
            /\ fs' = IF op = "load_new_data" THEN [fs EXCEPT ![cur] = "archive"] ELSE fs
            /\ outcome' = IF op = "load_new_data" THEN [outcome EXCEPT ![cur] = "ok"] ELSE outcome
            /\ op' = IF op = "load_new_data" THEN op ELSE "idle"
            /\ cur' = "" /\ i' = 0 /\ stmt' = "-"
            /\ UNCHANGED <<files, cuisine_id, action_id, resolved, everResolved, firstViol,
                           boot, reverted>>

\* ------------------------------------------------------------------------
\* Construction and direct calls of the gateway
\* ------------------------------------------------------------------------

RECURSIVE check_parts(_, _, _)
\* BaseDB._check_exists: the loop from path segment k on.  A missing segment
\* clears `existed`; with create it is made (the directories by os.mkdir,
\* the store file by connecting and closing), without it the loop raises.
check_parts(k, s, create) ==
    IF k > Len(path_parts) THEN s
    ELSE IF Part(k) \in s.disk THEN check_parts(k + 1, s, create)
    ELSE IF ~ create THEN [s EXCEPT !.existed = FALSE, !.raised = Part(k)]
    ELSE check_parts(k + 1,
                     [s EXCEPT !.existed = FALSE, !.disk = @ \cup {Part(k)},
                               !.conn = IF k = Len(path_parts) THEN _close(_connect(@)) ELSE @],
                     create)

\* Mutant of _check_exists: the missing segments are made before create is
\* looked at.
_check_exists_mkdir(create) ==
    LET s0 == [existed |-> TRUE, raised |-> <<>>, disk |-> disk, conn |-> "unset"]
    IN  [check_parts(1, s0, create) EXCEPT !.disk = check_parts(1, s0, TRUE).disk]

\* BaseDB._check_exists on the filesystem as it is, for a new object.
_check_exists(create) ==
    check_parts(1, [existed |-> TRUE, raised |-> <<>>, disk |-> disk, conn |-> "unset"], create)

\* NYCDB._create_tables: five CREATE TABLE statements through run_action
\* without keep_open, each of which connects, runs and closes.
_create_tables == [schema |-> TRUE, conn |-> run_action(Done(EmptyStore, 0), FALSE).conn]

\* cls(create): the constructor of BaseDB or NYCDB.  The caller holds one
\* object and the direct calls are made on the last object constructed.
\* The object it held is dropped without close or commit: the new
\* connection sees the committed store only.  A connection dropped open
\* with uncommitted rows is part of a reference cycle and is released by
\* the cyclic collector, at once or later: until then it holds the write
\* lock.  A constructor that raises leaves the caller without object.
Construct(cls, create) ==
    LET c == _check_exists(create)
        creates == cls = "NYCDB" /\ ~ c.existed
    IN  /\ op = "idle"
        /\ disk' = c.disk
        /\ missing' = c.raised
        /\ IF c.raised # <<>>
           THEN /\ instance' = "none"
                /\ UNCHANGED <<schema, _existed, conn, tx, resolved, last, written, locked, query>>
           ELSE /\ instance' = cls
                /\ locked' \in IF locked \/ (conn = "open" /\ tx # db) THEN BOOLEAN ELSE {FALSE}
                /\ _existed' = c.existed
                /\ schema' = IF creates THEN _create_tables.schema ELSE schema
                /\ conn' = IF creates THEN _create_tables.conn ELSE c.conn
                /\ tx' = db
                /\ resolved' = Kept(resolved, db) /\ last' = NoLast
                /\ written' = {} /\ query' = NoQuery
        /\ UNCHANGED <<files, fs, op, outcome, cur, i, stmt, cuisine_id, action_id, db,
                       result, start, everResolved, firstViol, reverted, nwrites>>

\* BaseDB(PATH_DB, create)
BaseDB_init == \E create \in BOOLEAN : Construct("BaseDB", create)

\* NYCDB(create)
NYCDB_init == \E create \in BOOLEAN : Construct("NYCDB", create)

\* run_action("INSERT INTO tCuisine (cuisine_desc) VALUES (:d)", {'d': desc}, keep_open)
\* called on the object held.
call_run_action ==
    /\ op = "idle" /\ instance # "none"
    /\ nwrites < MaxWrites
    /\ \E keep_open \in BOOLEAN, desc \in Cuisines :
          LET res == IF schema THEN InsertCuisine(tx, desc) ELSE Failed(tx)
              a == run_action(res, keep_open)
          IN  /\ conn' = a.conn /\ tx' = a.tx
              /\ written' = IF a.raised THEN written
                             ELSE written \cup {<<keep_open, [cuisine_id |-> a.lastrowid,
                                                              cuisine_desc |-> desc]>>}
              /\ nwrites' = IF a.raised THEN nwrites ELSE nwrites + 1
              /\ resolved' = Kept(resolved, a.tx)
    /\ UNCHANGED <<files, fs, op, outcome, cur, i, stmt, cuisine_id, action_id, db,
                   result, start, last, everResolved, firstViol,
                   disk, schema, _existed, instance, missing, reverted, locked, query>>

\* run_query("SELECT * FROM tCuisine WHERE cuisine_desc = :d", {'d': desc}, keep_open)
\* called on the object held.
call_run_query ==
    /\ op = "idle" /\ instance # "none"
    /\ \E keep_open \in BOOLEAN, desc \in Cuisines :
          LET q == run_query(keep_open)
          IN  /\ conn' = q.conn /\ tx' = q.tx
              /\ query' = IF q.raised THEN query
                           ELSE [desc |-> desc, rows |-> {r \in tx.tCuisine : r.cuisine_desc = desc}]
              /\ resolved' = Kept(resolved, q.tx)
    /\ UNCHANGED <<files, fs, op, outcome, cur, i, stmt, cuisine_id, action_id, db,
                   result, start, last, everResolved, firstViol,
                   disk, schema, _existed, instance, missing, reverted, written, nwrites, locked>>

\* The cyclic collector releases the connections of the dropped objects:
\* their uncommitted rows are gone and with them the write lock.
gc_collect ==
    /\ locked /\ locked' = FALSE
    /\ UNCHANGED <<files, fs, op, outcome, cur, i, stmt, cuisine_id, action_id, conn, db, tx,
                   result, start, last, resolved, everResolved, firstViol,
                   disk, schema, _existed, instance, missing, reverted, written, nwrites, query>>

Next ==
    \/ load_new_data
    \/ load_new_data_file
    \/ load_new_data_return
    \/ revert
    \/ load_nyc_file
    \/ get_cuisine
    \/ get_action
    \/ load_viol
    \/ load_rest
    \/ load_insp
    \/ commit

Spec == Init /\ [][Next]_vars

\* The same operations on a file of up to MaxLen rows.
SpecTimes == InitTimes /\ [][Next]_vars

\* From before the first construction, with the constructors and the direct
\* gateway calls.
NextBoot ==
    \/ Next
    \/ BaseDB_init
    \/ NYCDB_init
    \/ call_run_action
    \/ call_run_query
    \/ gc_collect

SpecBoot == InitBoot /\ [][NextBoot]_vars

\* ------------------------------------------------------------------------
\* Properties
\* ------------------------------------------------------------------------

Tables(S) == <<S.tCuisine, S.tAction, S.tViol, S.tRest, S.tInsp>>

Loading == cur # ""

\* C1 (idempotent re-load): while a file is loaded again right after a load
\* of it that returned (directly, or by load_new_data after revert), no step
\* raises, no row is added even to the open transaction, and when the load
\* ends the five committed tables are what they were after the first load.
C1_IdempotentReload ==
    [][(Loading /\ last.file = cur) =>
          /\ result' # "raised"
          /\ Tables(tx') = Tables(last.store)
          /\ (~ Loading' => Tables(db') = Tables(last.store))]_vars

\* The same re-load for the files that have at least one data row.
ReloadOfDataRows ==
    [][(Loading /\ last.file = cur /\ Len(df) > 0) =>
          /\ result' # "raised"
          /\ Tables(tx') = Tables(last.store)
          /\ (~ Loading' => Tables(db') = Tables(last.store))]_vars

RefsPresent(S, T) ==
    /\ \A r \in T.tRest : \E c \in S.tCuisine : c.cuisine_id = r.cuisine_id
    /\ \A n \in T.tInsp :
          /\ \E r \in S.tRest : r.camis = n.camis
          /\ \E v \in S.tViol : v.viol_id = n.viol_id
          /\ \E a \in S.tAction : a.action_id = n.action_id

Inserted(S, T) == [T EXCEPT !.tRest = @ \ S.tRest, !.tInsp = @ \ S.tInsp]

\* C2 (referential integrity at write time): every Restaurant or Inspection
\* row a step inserts refers to Cuisine, Restaurant, Violation and Action
\* rows that were in the store before the step, and neither the committed
\* store nor the connection's view ever holds a dangling reference.
C2_ReferentialIntegrity ==
    [][/\ RefsPresent(tx, Inserted(tx, tx'))
       /\ RefsPresent(db, db) /\ RefsPresent(db', db') /\ RefsPresent(tx', tx')]_vars

\* An inspection has just been inserted on top of a committed store that
\* already holds inspections.
C2_Witness ==
    /\ Loading /\ db.tInsp # {}
    /\ tx.tInsp # db.tInsp /\ tx.tRest # db.tRest

UniqueKeys(S) ==
    /\ \A a, b \in S.tCuisine : a.cuisine_desc = b.cuisine_desc => a = b
    /\ \A a, b \in S.tAction : a.action_desc = b.action_desc => a = b
    /\ \A a, b \in S.tViol : a.viol_id = b.viol_id => a = b
    /\ \A a, b \in S.tRest : a.camis = b.camis => a = b
    /\ \A a, b \in S.tInsp : InspKey(a) = InspKey(b) => a = b

\* C3 (natural-key uniqueness): in the committed store and in the
\* connection's view, no two Cuisine or Action rows share a description,
\* no two Violation rows a code, no two Restaurant rows a business id and
\* no two Inspection rows a (business id, date, time, code).
C3_NaturalKeysUnique == UniqueKeys(db) /\ UniqueKeys(tx)

\* After a load that raised, the committed store holds two inspections that
\* share one cuisine row, and a cuisine was resolved more often than created.
C3_Witness ==
    /\ result = "raised"
    /\ Cardinality(db.tInsp) >= 2 /\ Cardinality(db.tCuisine) = 1
    /\ Cardinality(db.tRest) = 1

OneToOne(R) == \A p, q \in R : p[1] = q[1] => ((p[2] = q[2]) <=> (p[3] = q[3]))

\* C4 as claimed (get-or-create stability): over all the calls of
\* get_cuisine and get_action since construction, rolled-back loads
\* included, a description always resolves to one id and an id to one
\* description.
C4_Original == OneToOne(everResolved)

\* C4 as amended: over the calls of get_cuisine and get_action whose row
\* has not been discarded uncommitted since, failed and rolled-back loads
\* between them included, a description resolves to one id and an id to
\* one description, and each such pair is a row of the connection's view.
C4_StableUnlessDiscarded ==
    /\ OneToOne(resolved)
    /\ \A p \in resolved :
          \/ p[1] = "tCuisine" /\ [cuisine_id |-> p[3], cuisine_desc |-> p[2]] \in tx.tCuisine
          \/ p[1] = "tAction" /\ [action_id |-> p[3], action_desc |-> p[2]] \in tx.tAction

\* get_cuisine has just returned, for a description resolved before a
\* rollback that discarded another pair, the id it had before that
\* rollback; and some description got another id after a rollback.
C4_Witness ==
    /\ Loading /\ stmt = "get_action"
    /\ <<"tCuisine", row.cuisine_desc, cuisine_id, TRUE>> \in resolved
    /\ \E p, q \in everResolved : p[1] = q[1] /\ p[2] = q[2] /\ p[3] # q[3]

\* The current row presents a violation code the view already holds.
CodeKnown == Loading /\ stmt = "load_viol" /\ SelectViol(tx, row.viol_id) # {}

\* C5 as claimed (first-write-wins for violations): the stored description
\* of a code is that of the first row met with the code in any load, and a
\* later row with the code raises nothing and leaves Violation as it is.
C5_Original ==
    [][/\ \A v \in tx'.tViol : <<v.viol_id, v.viol_desc>> \in firstViol'
       /\ CodeKnown => (result' # "raised" /\ tx'.tViol = tx.tViol)]_vars

\* C5 as amended: a Violation row is written only by load_viol, from the
\* row it is processing and for a code the view does not hold; while the
\* code stays in the view its description stays; a later row with the code
\* raises nothing and leaves Violation as it is.  (The first row met since
\* the code was last absent wins: a rollback forgets the rows it undoes.)
C5_FirstStoredWins ==
    [][/\ \A w \in tx'.tViol \ tx.tViol :
             /\ Loading /\ stmt = "load_viol" /\ SelectViol(tx, w.viol_id) = {}
             /\ w = [viol_id |-> row.viol_id, viol_desc |-> row.viol_desc]
       /\ \A v \in tx.tViol : (\E w \in tx'.tViol : w.viol_id = v.viol_id) => v \in tx'.tViol
       /\ CodeKnown => (result' # "raised" /\ tx'.tViol = tx.tViol)]_vars

\* load_viol has just passed a row whose code is stored with another
\* description, which is the first one met.
C5_Witness ==
    /\ Loading /\ stmt = "load_rest"
    /\ \E v \in tx.tViol : /\ v.viol_id = row.viol_id /\ v.viol_desc # row.viol_desc
                           /\ <<v.viol_id, v.viol_desc>> \in firstViol

Subset(S, T) == \A k \in 1..Len(Tables(S)) : Tables(S)[k] \subseteq Tables(T)[k]

\* C6 (insert-only store): no step removes or changes a committed row; a
\* row whose business id is stored leaves Restaurant as it is and a row
\* whose (business id, date, time, code) is stored leaves Inspection as it
\* is, whatever its other fields, and neither raises.
C6_InsertOnly ==
    [][/\ Subset(db, db')
       /\ (Loading /\ stmt = "load_rest" /\ HasColumns({"CAMIS"})
             /\ SelectRest(tx, row.CAMIS) # {})
          => (tx'.tRest = tx.tRest /\ result' # "raised")
       /\ (Loading /\ stmt = "load_insp" /\ HasColumns({"CAMIS"})
             /\ SelectInsp(tx, row.CAMIS, row.insp_date, insp_time(i, Len(df)), row.viol_id) # {})
          => (tx'.tInsp = tx.tInsp /\ result' # "raised")]_vars

\* load_insp has just passed a row whose restaurant is committed under
\* another name and whose inspection is committed with another action.
C6_Witness ==
    /\ Loading /\ stmt = "commit" /\ i >= 1
    /\ \E r \in db.tRest : r.camis = row.CAMIS /\ r.dba # row.DBA
    /\ \E n \in db.tInsp :
          /\ InspKey(n) = <<row.CAMIS, row.insp_date, insp_time(i, Len(df)), row.viol_id>>
          /\ \E a \in tx.tAction : a.action_id = n.action_id /\ a.action_desc # row.action_desc

\* C7 (per-file failure isolation): load_new_data is left only by its
\* return, never by an error of a file's load, and then every file that was
\* in the intake directory has been attempted, the files whose load raised
\* are still in the intake directory and the files whose load returned are
\* in the archive.
C7_ScanIsolation ==
    [][(op = "load_new_data" /\ op' # "load_new_data") =>
          \A f \in FileNames :
             /\ outcome[f] # "pending"
             /\ outcome[f] = "error" => fs'[f] = "intake"
             /\ outcome[f] = "ok" => fs'[f] = "archive"
             /\ outcome[f] = "none" => fs'[f] = "archive"]_vars

\* The same of the scans whose files all decode as UTF-8.
ScanOfDecodableFiles ==
    [][(op = "load_new_data" /\ op' # "load_new_data" /\ \A f \in FileNames : files[f].utf8) =>
          \A f \in FileNames :
             /\ outcome[f] # "pending"
             /\ outcome[f] = "error" => fs'[f] = "intake"
             /\ outcome[f] = "ok" => fs'[f] = "archive"
             /\ outcome[f] = "none" => fs'[f] = "archive"]_vars

\* A scan of decodable files is about to return after one file's load
\* raised and another file's load returned.
ScanOfDecodableFiles_Witness ==
    /\ op = "load_new_data" /\ ~ Loading
    /\ \A f \in FileNames : outcome[f] # "pending" /\ files[f].utf8
    /\ \E f, g \in FileNames : /\ outcome[f] = "error" /\ fs[f] = "intake"
                               /\ outcome[g] = "ok" /\ fs[g] = "archive"

\* What the row loop's next call does on the connection's view.
CurrentCall ==
    CASE stmt = "get_cuisine" -> GetCuisine(tx, row.cuisine_desc)
      [] stmt = "get_action" -> GetAction(tx, row.action_desc)
      [] stmt = "load_viol" -> LoadViol(tx, row.viol_id, row.viol_desc)
      [] stmt = "load_rest" -> LoadRest(tx, row, cuisine_id)
      [] stmt = "load_insp" -> LoadInsp(tx, row.CAMIS, row.insp_date, insp_time(i, Len(df)),
                                        row.viol_id, action_id)

\* The next call issues an insert through run_action and the insert fails.
WriteFails ==
    /\ Loading /\ stmt \in {"get_cuisine", "get_action", "load_viol", "load_rest", "load_insp"}
    /\ (stmt \in {"load_rest", "load_insp"} => HasColumns({"CAMIS"}))
    /\ CurrentCall.wrote /\ ~ CurrentCall.res.ok

\* C8 (write-failure rollback): the step of a failing insert leaves the
\* connection's view equal to the committed store, which is the store of
\* before the load, closes the connection and raises; and run_action
\* closes on a failure for either value of keep_open.
C8_WriteFailureRollback ==
    [][WriteFails =>
          /\ tx' = db /\ db' = db /\ db' = start.db
          /\ conn' = "closed" /\ result' = "raised"
          /\ \A k \in BOOLEAN : /\ run_action(Failed(tx), k).conn = "closed"
                               /\ run_action(Failed(tx), k).tx = db]_vars

\* A scan has met a file whose first row loads and whose second row has a
\* date the store refuses: nothing of the file is in the store.
C8_Witness ==
    /\ result = "raised" /\ conn = "closed" /\ op = "load_new_data"
    /\ db = EmptyStore /\ tx = EmptyStore
    /\ \E f \in FileNames :
          /\ outcome[f] = "error" /\ Len(files[f].rows) = 2
          /\ files[f].header = AllColumns
          /\ files[f].rows[1] = BaseRow /\ files[f].rows[2].insp_date = DateShort

\* The natural keys of the rows of the file being loaded.
FileCuisines == {df[k].cuisine_desc : k \in 1..Len(df)}

FileActions == {df[k].action_desc : k \in 1..Len(df)}

FileViols == {df[k].viol_id : k \in 1..Len(df)}

FileRests == {df[k].CAMIS : k \in 1..Len(df)}

FileInsps == {<<df[k].CAMIS, df[k].insp_date, insp_time(k, Len(df)), df[k].viol_id>> : k \in 1..Len(df)}

\* C9 (normalization result of a successful load): when load_new_data's
\* load of a file returns, and the store and the connection's view were
\* empty when that load began, the committed store holds one Cuisine row
\* per cuisine description of the file, one Action row per action
\* description, one Violation row per code, one Restaurant row per business
\* id and one Inspection row per (business id, date, time, code), and the
\* file is in the archive directory.
C9_NormalizedLoad ==
    [][(/\ op = "load_new_data" /\ Loading /\ stmt = "commit"
        /\ start.db = EmptyStore /\ start.tx = EmptyStore
        /\ result' = "returned") =>
          /\ {c.cuisine_desc : c \in db'.tCuisine} = FileCuisines
          /\ Cardinality(db'.tCuisine) = Cardinality(FileCuisines)
          /\ {a.action_desc : a \in db'.tAction} = FileActions
          /\ Cardinality(db'.tAction) = Cardinality(FileActions)
          /\ {v.viol_id : v \in db'.tViol} = FileViols
          /\ Cardinality(db'.tViol) = Cardinality(FileViols)
          /\ {r.camis : r \in db'.tRest} = FileRests
          /\ Cardinality(db'.tRest) = Cardinality(FileRests)
          /\ {InspKey(n) : n \in db'.tInsp} = FileInsps
          /\ Cardinality(db'.tInsp) = Cardinality(FileInsps)
          /\ fs'[cur] = "archive"]_vars

\* A scan has loaded a file of two rows with one business id, one cuisine
\* and two violation codes: 1 Cuisine, 1 Restaurant, 2 Inspections, and the
\* file is in the archive.
C9_Witness ==
    /\ op = "load_new_data" /\ ~ Loading
    /\ \E f \in FileNames :
          /\ outcome[f] = "ok" /\ fs[f] = "archive"
          /\ Len(files[f].rows) = 2
          /\ files[f].rows[1].CAMIS = files[f].rows[2].CAMIS
          /\ files[f].rows[1].cuisine_desc = files[f].rows[2].cuisine_desc
          /\ files[f].rows[1].viol_id # files[f].rows[2].viol_id
    /\ Cardinality(db.tCuisine) = 1 /\ Cardinality(db.tRest) = 1
    /\ Cardinality(db.tInsp) = 2

IsDigit(c) == \E k \in 1..Len(Digits) : Digits[k] = c

\* Two digits, slash, two digits, slash, four digits.
DigitDate(d) ==
    /\ Len(d) = 10 /\ d[3] = "/" /\ d[6] = "/"
    /\ \A k \in {1, 2, 4, 5, 7, 8, 9, 10} : IsDigit(d[k])

\* Ten characters of which the third and the sixth are slashes.
SlashDate(d) ==
    /\ Len(d) = 10
    /\ \A k \in {3, 6} : d[k] = "/"

\* load_insp is about to insert the current row (its key is not stored).
InspWrite ==
    /\ Loading /\ stmt = "load_insp" /\ HasColumns({"CAMIS"})
    /\ SelectInsp(tx, row.CAMIS, row.insp_date, insp_time(i, Len(df)), row.viol_id) = {}

\* C10 as claimed (date format validation): writing an Inspection row
\* whose date is not two digits, slash, two digits, slash, four digits
\* raises, and no Inspection row with such a date is stored.
C10_Original ==
    [][/\ (InspWrite /\ ~ DigitDate(row.insp_date)) => result' = "raised"
       /\ \A n \in tx'.tInsp \cup db'.tInsp : DigitDate(n.insp_date)]_vars

\* C10 as amended: writing an Inspection row whose date is not ten
\* characters with a slash third and sixth raises, and no Inspection row
\* with such a date is stored; the other eight characters are not checked.
C10_SlashPattern ==
    [][/\ (InspWrite /\ ~ SlashDate(row.insp_date)) => result' = "raised"
       /\ \A n \in tx'.tInsp \cup db'.tInsp : SlashDate(n.insp_date)]_vars

\* A file whose only row has a date of eight characters has raised, and an
\* Inspection row dated with letters is committed.
C10_Witness ==
    /\ result = "raised" /\ conn = "closed"
    /\ \E f \in FileNames :
          /\ outcome[f] = "error" /\ files[f].header = AllColumns
          /\ Len(files[f].rows) = 1 /\ ~ SlashDate(files[f].rows[1].insp_date)
    /\ \E n \in db.tInsp : ~ DigitDate(n.insp_date)

\* C11 (revert is file-placement-only): a step that takes a file out of the
\* archive leaves every file in the intake directory under its name and
\* with its content, and leaves the committed store, the connection and
\* its view as they were.
C11_RevertMovesFilesOnly ==
    [][(\E f \in FileNames : fs[f] = "archive" /\ fs'[f] = "intake") =>
          /\ \A f \in FileNames : fs'[f] = "intake"
          /\ files' = files
          /\ db' = db /\ tx' = tx /\ conn' = conn]_vars

\* revert has moved both files back, and the rows their loads committed
\* are in the store.
C11_Witness ==
    /\ op = "idle" /\ reverted = FileNames
    /\ \A f \in FileNames : fs[f] = "intake"
    /\ Cardinality(db.tInsp) = 2 /\ Cardinality(db.tRest) >= 1

\* The shortest path of PATH_DB that does not exist in d.
FirstMissing(d) ==
    Part(CHOOSE k \in 1..Len(path_parts) : Part(k) \notin d /\ \A j \in 1..(k - 1) : Part(j) \in d)

Complete(d) == \A k \in 1..Len(path_parts) : Part(k) \in d

\* C12 (bootstrap with creation disallowed): BaseDB(PATH_DB, create=False)
\* and NYCDB(create=False), called while a directory of the store path or
\* the store file is missing, raise an error that names the first missing
\* path, give the caller no object and leave the filesystem and the store
\* as they were.
C12_NotFoundNoCreate ==
    [][\A cls \in {"BaseDB", "NYCDB"} :
          (Construct(cls, FALSE) /\ ~ Complete(disk)) =>
             /\ missing' = FirstMissing(disk)
             /\ instance' = "none"
             /\ disk' = disk /\ schema' = schema /\ db' = db]_vars

\* A constructor has raised on the store file, the directory being there.
C12_Witness ==
    /\ missing = Part(Len(path_parts)) /\ instance = "none"
    /\ disk = {Part(k) : k \in 1..(Len(path_parts) - 1)}
    /\ schema = FALSE

\* NYCDB(create=True) makes every missing path, sets _existed to whether
\* all of them were there, and creates the tables exactly when they were
\* not; on a store that is there it raises nothing and changes no row.
BootstrapOfNYCDB ==
    [][Construct("NYCDB", TRUE) =>
          /\ missing' = <<>> /\ instance' = "NYCDB"
          /\ Complete(disk')
          /\ _existed' = Complete(disk)
          /\ schema' = (schema \/ ~ _existed')
          /\ db' = db]_vars

\* C13 (idempotent schema bootstrap): NYCDB(create=True) makes every
\* missing path, sets _existed to False exactly when one was missing and
\* creates the five tables exactly when _existed is False; it raises
\* nothing and changes no row on a store that is there; and after any
\* construction the first read of a load finds the tables.
C13_IdempotentBootstrap ==
    [][/\ Construct("NYCDB", TRUE) =>
             /\ missing' = <<>> /\ instance' = "NYCDB"
             /\ Complete(disk')
             /\ _existed' = Complete(disk)
             /\ schema' = (schema \/ ~ _existed')
             /\ db' = db
       /\ (Loading' /\ stmt' = "get_cuisine") => ~ run_query(TRUE).raised']_vars

\* The number a digit character stands for, and the number written by the
\* two characters of t from position k.
Val(c) == CHOOSE k \in 0..9 : Digits[k + 1] = c

Num(t, k) == 10 * Val(t[k]) + Val(t[k + 1])

\* hh:mm:ss of eight characters with 9 <= hh <= 17, mm <= 60 and ss <= 60.
TimeInRange(t) ==
    /\ Len(t) = 8 /\ t[3] = ":" /\ t[6] = ":"
    /\ \A k \in {1, 2, 4, 5, 7, 8} : IsDigit(t[k])
    /\ Num(t, 1) \in 9..17 /\ Num(t, 4) \in 0..60 /\ Num(t, 7) \in 0..60

\* C14 (synthesized time range): the time generated for every row of the
\* file being loaded is two digits, colon, two digits, colon, two digits
\* with the hour in 9..17 and the minute and the second in 0..60, it passes
\* the store's check on insp_time, and so does every stored time.
C14_TimeRange ==
    /\ Loading => \A k \in 1..Len(df) : /\ TimeInRange(insp_time(k, Len(df)))
                                        /\ LikeTime(insp_time(k, Len(df)))
    /\ \A n \in tx.tInsp \cup db.tInsp : TimeInRange(n.insp_time)

\* The committed store holds an inspection whose second is 60 and one whose
\* minute was padded to two characters.
C14_Witness ==
    /\ \E n \in db.tInsp : Num(n.insp_time, 7) = 60
    /\ \E n \in db.tInsp : n.insp_time[4] = "0"
    /\ result = "returned"

\* C15 (commit per file): while load_nyc_file processes rows the committed
\* store does not change; the call returns only from the commit after the
\* last row, and then the committed store is the connection's view, which
\* holds every row the load inserted, and the connection is closed.
C15_CommitPerFile ==
    [][/\ (Loading /\ stmt # "commit") => db' = db
       /\ (Loading /\ Loading') => db' = db
       /\ (Loading /\ result' = "returned") =>
             /\ stmt = "commit" /\ i = Len(df)
             /\ Subset(start.tx, tx)
             /\ db' = tx /\ tx' = tx
             /\ conn' = "closed"]_vars

\* The loop is at the second row of a file, the inspection of the first
\* row is in the connection's view and the committed store is that of
\* before the load.
C15_Witness ==
    /\ Loading /\ i = 2 /\ stmt = "get_cuisine"
    /\ tx.tInsp # db.tInsp /\ db = start.db

\* C16 (per-file atomicity across a scan): the rows a returning load adds
\* to the committed store are rows that load inserted, so that a file whose
\* load raised has no row committed by the load of another file.
C16_PerFileAtomicity ==
    [][(Loading /\ result' = "returned") =>
          \A k \in 1..Len(Tables(db)) :
             Tables(db')[k] \ Tables(db)[k] \subseteq Tables(tx)[k] \ Tables(start.tx)[k]]_vars

\* C17 (zero-row file): the load of a file with the full header and no
\* data row returns, changes no table and leaves the connection closed,
\* and under load_new_data the file goes to the archive.
C17_ZeroRowFile ==
    [][(Loading /\ Len(df) = 0 /\ files[cur].header = AllColumns) =>
          /\ result' = "returned"
          /\ Tables(db') = Tables(db)
          /\ conn' = "closed"
          /\ (op = "load_new_data" => fs'[cur] = "archive")]_vars

\* C18 (durability of a gateway write): a direct run_query for a
\* description returns every row of that description that a direct
\* run_action call on the same object inserted and returned from, whatever
\* keep_open was.
C18_GatewayWriteDurable ==
    [][(query' # query) =>
          \A w \in written : w[2].cuisine_desc = query'.desc => w[2] \in query'.rows]_vars

NoOrphans(S) ==
    /\ \A c \in S.tCuisine : \E r \in S.tRest : r.cuisine_id = c.cuisine_id
    /\ \A a \in S.tAction : \E n \in S.tInsp : n.action_id = a.action_id
    /\ \A v \in S.tViol : \E n \in S.tInsp : n.viol_id = v.viol_id

\* C19 (no orphan dimension rows): a load that began on a store without
\* orphans, with nothing left in the connection's view by an earlier load,
\* and that returns, commits a store in which every Cuisine row is referred
\* to by a Restaurant row and every Action and Violation row by an
\* Inspection row.
C19_NoOrphanDimensionRows ==
    [][(Loading /\ result' = "returned" /\ start.tx = start.db /\ NoOrphans(start.db)) =>
          NoOrphans(db')]_vars

====
